---- MODULE Spec2Model ----
(***************************************************************************)
(* Layout reconstruction of ocr-service/app/ocr.py: the per-page result of *)
(* the OCR engine is normalised to a list of segments, sorted in reading   *)
(* order, clustered into visual lines and assembled into text.             *)
(*                                                                         *)
(* Numbers.  Polygon coordinates are integers; every real quantity q the   *)
(* code computes from them (centers, heights, medians, thresholds) is held *)
(* as the integer 10*q.  Centers are half-integers, a median is a height   *)
(* or the mean of two heights, and 0.4 * line_height is then a multiple of *)
(* 0.2, so all of them are exact in tenths.                                *)
(*                                                                         *)
(* Text.  A Python str is a sequence of one-character strings.             *)
(***************************************************************************)
EXTENDS Integers, Sequences, FiniteSets, TLC

\* Longest segment list (and longest parallel array of a dict result).
MaxSegs == 3

\* Longest string given to _normalize_whitespace on its own.
MaxLen == 5

\* Polygons given to _parse_box on its own: most points, largest coordinate.
MaxPts == 2
MaxCoord == 2

\* /ocr requests in one process, and most pages of one document.
MaxReqs == 2
MaxPages == 2

----------------------------------------------------------------------------
(* Generic helpers *)

Range(s) == {s[i] : i \in 1..Len(s)}

SeqMin(s) == CHOOSE m \in Range(s) : \A e \in Range(s) : m <= e
SeqMax(s) == CHOOSE m \in Range(s) : \A e \in Range(s) : m >= e

Max2(a, b) == IF a >= b THEN a ELSE b
Min2(a, b) == IF a <= b THEN a ELSE b
Abs(a) == IF a < 0 THEN 0 - a ELSE a

\* Python compares the tuple keys (a, b) lexicographically.
KeyLess(a, b) == a[1] < b[1] \/ (a[1] = b[1] /\ a[2] < b[2])

\* sorted(range(n), key=...): stable, ascending.  The index i goes after every
\* element whose key is not greater than its own.
RECURSIVE InsertByKey(_, _, _)
InsertByKey(sorted, i, keys) ==
    IF sorted = <<>> THEN <<i>>
    ELSE IF KeyLess(keys[i], keys[Head(sorted)]) THEN <<i>> \o sorted
    ELSE <<Head(sorted)>> \o InsertByKey(Tail(sorted), i, keys)

RECURSIVE SortPrefix(_, _)
SortPrefix(keys, n) ==
    IF n = 0 THEN <<>> ELSE InsertByKey(SortPrefix(keys, n - 1), n, keys)

SortIndices(keys) == SortPrefix(keys, Len(keys))

RECURSIVE Flatten(_)
Flatten(ss) == IF ss = <<>> THEN <<>> ELSE Head(ss) \o Flatten(Tail(ss))

----------------------------------------------------------------------------
(* Values of the engine result *)

\* A coordinate: ok is whether float() accepts it, v its value.
Num(v) == [ok |-> TRUE, v |-> v]
BadNum == [ok |-> FALSE, v |-> 0]

\* A polygon point: seq is whether it is a list/tuple/ndarray, len its length.
Pt(x, y) == [seq |-> TRUE, len |-> 2, x |-> Num(x), y |-> Num(y)]
PtRaw(x, y) == [seq |-> TRUE, len |-> 2, x |-> x, y |-> y]
PtShort == [seq |-> TRUE, len |-> 1, x |-> Num(0), y |-> BadNum]
PtScalar == [seq |-> FALSE, len |-> 0, x |-> BadNum, y |-> BadNum]

\* segment[0]: None, a list of points, or some other object.
BoxNone == [kind |-> "none", pts |-> <<>>]
BoxOther == [kind |-> "other", pts |-> <<>>]
BoxOf(pts) == [kind |-> "seq", pts |-> pts]
Rect(x1, y1, x2, y2) ==
    BoxOf(<<Pt(x1, y1), Pt(x2, y1), Pt(x2, y2), Pt(x1, y2)>>)

\* segment[1]: a str, a tuple (first, conf), None or some other object.
\* For a tuple, len is its length, e0 the type of its first element with
\* text (a str) or n (an int) its value, and conf the second element.
PayStr(t) ==
    [kind |-> "str", len |-> 0, e0 |-> "str", text |-> t, n |-> 0, conf |-> 0]
PayPair(t, c) ==
    [kind |-> "seq", len |-> 2, e0 |-> "str", text |-> t, n |-> 0, conf |-> c]
PayIntPair(n, c) ==
    [kind |-> "seq", len |-> 2, e0 |-> "int", text |-> <<>>, n |-> n, conf |-> c]
PayNonePair(c) ==
    [kind |-> "seq", len |-> 2, e0 |-> "none", text |-> <<>>, n |-> 0, conf |-> c]
PayEmptySeq ==
    [kind |-> "seq", len |-> 0, e0 |-> "none", text |-> <<>>, n |-> 0, conf |-> 0]
PayNone ==
    [kind |-> "none", len |-> 0, e0 |-> "none", text |-> <<>>, n |-> 0, conf |-> 0]
PayOther ==
    [kind |-> "other", len |-> 0, e0 |-> "none", text |-> <<>>, n |-> 0, conf |-> 0]

\* A segment: None, a scalar n, or a sequence of len elements (box, payload).
SegNone == [kind |-> "none", n |-> 0, len |-> 0, box |-> BoxNone, payload |-> PayNone]
SegScalar(n) == [kind |-> "scalar", n |-> n, len |-> 0, box |-> BoxNone, payload |-> PayNone]
SegEmpty == [kind |-> "seq", n |-> 0, len |-> 0, box |-> BoxNone, payload |-> PayNone]
SegBoxOnly(b) == [kind |-> "seq", n |-> 0, len |-> 1, box |-> b, payload |-> PayNone]
Seg(b, p) == [kind |-> "seq", n |-> 0, len |-> 2, box |-> b, payload |-> p]

----------------------------------------------------------------------------
(* Text *)

SP == " "
NL == "\n"
TAB == "\t"
Whitespace == {SP, NL, TAB}

RECURSIVE DropLeadingWs(_)
DropLeadingWs(s) ==
    IF s # <<>> /\ Head(s) \in Whitespace THEN DropLeadingWs(Tail(s)) ELSE s

\* Variant of CollapseWs: every whitespace character becomes a space, runs
\* are kept.
RECURSIVE CollapseEach(_)
CollapseEach(s) ==
    IF s = <<>> THEN <<>>
    ELSE IF Head(s) \in Whitespace
         THEN <<SP>> \o CollapseEach(Tail(s))
         ELSE <<Head(s)>> \o CollapseEach(Tail(s))

\* re.sub(r"\s+", " ", text)
RECURSIVE CollapseWs(_)
CollapseWs(s) ==
    IF s = <<>> THEN <<>>
    ELSE IF Head(s) \in Whitespace
         THEN <<SP>> \o CollapseWs(DropLeadingWs(Tail(s)))
         ELSE <<Head(s)>> \o CollapseWs(Tail(s))

RECURSIVE DropTrailingWs(_)
DropTrailingWs(s) ==
    IF s # <<>> /\ s[Len(s)] \in Whitespace
    THEN DropTrailingWs(SubSeq(s, 1, Len(s) - 1)) ELSE s

\* str.strip()
Strip(s) == DropTrailingWs(DropLeadingWs(s))

_normalize_whitespace(text) == Strip(CollapseWs(text))

\* sep.join(parts)
RECURSIVE Join(_, _)
Join(sep, parts) ==
    IF parts = <<>> THEN <<>>
    ELSE IF Len(parts) = 1 THEN parts[1]
    ELSE parts[1] \o <<sep>> \o Join(sep, Tail(parts))

Digit(d) == <<"0", "1", "2", "3", "4", "5", "6", "7", "8", "9">>[d + 1]

RECURSIVE StrNat(_)
StrNat(n) == IF n < 10 THEN <<Digit(n)>> ELSE StrNat(n \div 10) \o <<Digit(n % 10)>>

\* str(part[0]) for a first element that is not a str.
StrOfInt(n) == IF n < 0 THEN <<"-">> \o StrNat(0 - n) ELSE StrNat(n)
StrOfNone == <<"N", "o", "n", "e">>

----------------------------------------------------------------------------
(* Geometry extraction *)

NoBox == [raises |-> FALSE, ok |-> FALSE,
          min_x |-> 0, min_y |-> 0, max_x |-> 0, max_y |-> 0]
BoxRaises == [raises |-> TRUE, ok |-> FALSE,
              min_x |-> 0, min_y |-> 0, max_x |-> 0, max_y |-> 0]

\* The point passes isinstance(p, (list, tuple, np.ndarray)) and len(p) >= 2.
IsPoint(p) == p.seq /\ p.len >= 2

\* xs.append(float(p[0])) runs before ys.append(float(p[1])): a point whose
\* first coordinate converts is in xs even when its second one does not.
PointsToXs(pts) ==
    LET kept == SelectSeq(pts, LAMBDA p : IsPoint(p) /\ p.x.ok)
    IN  [j \in 1..Len(kept) |-> kept[j].x.v]

PointsToYs(pts) ==
    LET kept == SelectSeq(pts, LAMBDA p : IsPoint(p) /\ p.x.ok /\ p.y.ok)
    IN  [j \in 1..Len(kept) |-> kept[j].y.v]

\* Variant of _parse_box: a zero box where the code returns None.
ParseBoxDefaultZero(segment) ==
    IF segment.kind = "scalar" /\ segment.n # 0 THEN BoxRaises
    ELSE IF segment.kind # "seq" \/ segment.len < 1
            \/ segment.box.kind # "seq"
            \/ PointsToXs(segment.box.pts) = <<>>
            \/ PointsToYs(segment.box.pts) = <<>>
    THEN [NoBox EXCEPT !.ok = TRUE]
    ELSE [raises |-> FALSE, ok |-> TRUE,
          min_x |-> SeqMin(PointsToXs(segment.box.pts)),
          min_y |-> SeqMin(PointsToYs(segment.box.pts)),
          max_x |-> SeqMax(PointsToXs(segment.box.pts)),
          max_y |-> SeqMax(PointsToYs(segment.box.pts))]

\* (min_x, min_y, max_x, max_y), None (ok = FALSE), or TypeError from
\* len(segment) on a non-zero scalar (raises = TRUE).
_parse_box(segment) ==
    IF segment.kind = "none" \/ (segment.kind = "scalar" /\ segment.n = 0)
    THEN NoBox
    ELSE IF segment.kind = "scalar" THEN BoxRaises
    ELSE IF segment.len < 1 THEN NoBox
    ELSE IF segment.box.kind # "seq" \/ Len(segment.box.pts) = 0 THEN NoBox
    ELSE LET xs == PointsToXs(segment.box.pts)
             ys == PointsToYs(segment.box.pts)
         IN  IF xs = <<>> \/ ys = <<>> THEN NoBox
             ELSE [raises |-> FALSE, ok |-> TRUE,
                   min_x |-> SeqMin(xs), min_y |-> SeqMin(ys),
                   max_x |-> SeqMax(xs), max_y |-> SeqMax(ys)]

NoGeom == [raises |-> FALSE, ok |-> FALSE, cx |-> 0, cy |-> 0, h |-> 0]

\* (center_x, center_y, height) in tenths, or None.
_segment_geometry(segment) ==
    LET b == _parse_box(segment)
    IN  IF b.raises THEN [NoGeom EXCEPT !.raises = TRUE]
        ELSE IF ~b.ok THEN NoGeom
        ELSE [raises |-> FALSE, ok |-> TRUE,
              cx |-> 5 * (b.min_x + b.max_x),
              cy |-> 5 * (b.min_y + b.max_y),
              h |-> 10 * (b.max_y - b.min_y)]

----------------------------------------------------------------------------
(* Reading-order sort (flat) *)

\* Variant of ReadingKey: (min_x, min_y).
ReadingKeyByX(item) ==
    LET b == _parse_box(item)
    IN  IF ~b.ok THEN <<0, 0>> ELSE <<b.min_x, b.min_y>>

\* sort_key of _sort_by_reading_order: (min_y, min_x), (0.0, 0.0) without a box.
ReadingKey(item) ==
    LET b == _parse_box(item)
    IN  IF ~b.ok THEN <<0, 0>> ELSE <<b.min_y, b.min_x>>

SortRaises(lns) == \E i \in 1..Len(lns) : _parse_box(lns[i]).raises

_sort_by_reading_order(lns) ==
    LET keys == [i \in 1..Len(lns) |-> ReadingKey(lns[i])]
        order == SortIndices(keys)
    IN  [j \in 1..Len(lns) |-> lns[order[j]]]

----------------------------------------------------------------------------
(* Dictionary result (PaddleOCR 3.x) *)

\* The value d.get(key): absent (None), a list, or some other truthy object.
Absent == [kind |-> "absent", items |-> <<>>]
ListOf(items) == [kind |-> "list", items |-> items]
OtherObject == [kind |-> "other", items |-> <<>>]

Truthy(v) == v.kind = "other" \/ (v.kind = "list" /\ v.items # <<>>)

\* Python's a or b: a when a is truthy, else b.
PyOr(a, b) == IF Truthy(a) THEN a ELSE b

DictPolys(d) == PyOr(d.dt_polys, PyOr(d.dt_boxes, d.boxes))
DictTexts(d) == PyOr(d.rec_texts, d.texts)
DictScores(d) == PyOr(d.rec_scores, d.scores)

\* (text, conf) for index i: conf = float(scores[i]) when scores is truthy and
\* long enough, else 0.0.  A text item is [e0, text, n] as in a payload.
DictPayload(item, scores, i) ==
    [kind |-> "seq", len |-> 2, e0 |-> item.e0, text |-> item.text, n |-> item.n,
     conf |-> IF Truthy(scores) /\ i <= Len(scores.items)
              THEN scores.items[i] ELSE 0]

\* Variant of _result_dict_to_lines: range(n - 1), the last pair is lost.
ResultDictToLinesShort(d) ==
    LET polys == DictPolys(d)
        texts == DictTexts(d)
        scores == DictScores(d)
    IN  IF ~Truthy(polys) \/ ~Truthy(texts) THEN <<>>
        ELSE IF polys.kind # "list" \/ texts.kind # "list" THEN <<>>
        ELSE LET n == Min2(Len(polys.items), Len(texts.items)) - 1
             IN  [i \in 1..n |->
                     Seg(polys.items[i], DictPayload(texts.items[i], scores, i))]

_result_dict_to_lines(d) ==
    LET polys == DictPolys(d)
        texts == DictTexts(d)
        scores == DictScores(d)
    IN  IF ~Truthy(polys) \/ ~Truthy(texts) THEN <<>>
        ELSE IF polys.kind # "list" \/ texts.kind # "list" THEN <<>>
        ELSE LET n == Min2(Len(polys.items), Len(texts.items))
             IN  [i \in 1..n |->
                     Seg(polys.items[i], DictPayload(texts.items[i], scores, i))]

----------------------------------------------------------------------------
(* Text of a segment *)

NoText == [raises |-> FALSE, text |-> <<>>]

\* _segment_text of extract_text_from_image: len(seg) raises TypeError on
\* None and on a scalar.
_segment_text(seg) ==
    IF seg.kind # "seq" THEN [raises |-> TRUE, text |-> <<>>]
    ELSE IF seg.len < 2 THEN NoText
    ELSE LET part == seg.payload
         IN  IF part.kind = "str" THEN [raises |-> FALSE, text |-> part.text]
             ELSE IF part.kind = "seq" /\ part.len > 0
             THEN [raises |-> FALSE,
                   text |-> CASE part.e0 = "str" -> part.text
                              [] part.e0 = "int" -> StrOfInt(part.n)
                              [] OTHER -> StrOfNone]
             ELSE NoText

TextsRaise(segs) == \E i \in 1..Len(segs) : _segment_text(segs[i]).raises

\* " ".join of the texts of the segments segs[idx[1]], segs[idx[2]], ...
LineString(segs, idx) ==
    Join(SP, [j \in 1..Len(idx) |-> _segment_text(segs[idx[j]]).text])

\* Variant of GroupedText: the line strings joined by spaces.
GroupedTextSpaces(segs, grouped) ==
    Join(SP, [l \in 1..Len(grouped) |->
                 _normalize_whitespace(LineString(segs, grouped[l]))])

\* Variant of GroupedText: the line strings are not normalized.
GroupedTextRaw(segs, grouped) ==
    Join(NL, [l \in 1..Len(grouped) |-> LineString(segs, grouped[l])])

\* Lines 230-235: one normalized string per line, joined by newlines.
GroupedText(segs, grouped) ==
    Join(NL, [l \in 1..Len(grouped) |->
                 _normalize_whitespace(LineString(segs, grouped[l]))])

\* Lines 238-239: all texts joined by spaces, normalized once.
FlatText(segs) ==
    _normalize_whitespace(LineString(segs, [i \in 1..Len(segs) |-> i]))

----------------------------------------------------------------------------
(* Line clustering *)

\* current_y: None or a center_y.
Unset == [set |-> FALSE, v |-> 0]
SetTo(v) == [set |-> TRUE, v |-> v]

Geoms(segs) == [i \in 1..Len(segs) |-> _segment_geometry(segs[i])]

GeomsRaise(segs) == \E i \in 1..Len(segs) : _segment_geometry(segs[i]).raises

\* Variant of Heights: a segment without geometry counts with height 0.
HeightsWithInvalid(gs) == [j \in 1..Len(gs) |-> IF gs[j].ok THEN gs[j].h ELSE 0]

\* heights = [g[2] for g in geoms if g is not None]
Heights(gs) ==
    LET valid == SelectSeq(gs, LAMBDA g : g.ok)
    IN  [j \in 1..Len(valid) |-> valid[j].h]

\* np.median: the middle of the sorted values, or the mean of the two middle
\* ones.
Median(hs) ==
    LET order == SortIndices([j \in 1..Len(hs) |-> <<hs[j], 0>>])
        n == Len(hs)
    IN  IF n % 2 = 1 THEN hs[order[(n + 1) \div 2]]
        ELSE (hs[order[n \div 2]] + hs[order[n \div 2 + 1]]) \div 2

\* line_height = max(median(heights), 5.0) if heights else 10.0
LineHeight(gs) ==
    IF Heights(gs) # <<>> THEN Max2(Median(Heights(gs)), 50) ELSE 100

\* y_threshold = 0.4 * line_height
YThreshold(gs) == (4 * LineHeight(gs)) \div 10

\* Variant of GroupKey: a segment without geometry sorts last.
GroupKeyInvalidLast(g) == IF ~g.ok THEN <<100000, 0>> ELSE <<g.cy, g.cx>>

\* Variant of GroupKey: (center_x, center_y).
GroupKeySwapped(g) == IF ~g.ok THEN <<0, 0>> ELSE <<g.cx, g.cy>>

\* sort_key of _group_into_lines: (center_y, center_x), (0.0, 0.0) for None.
GroupKey(g) == IF ~g.ok THEN <<0, 0>> ELSE <<g.cy, g.cx>>

\* Variant of GroupOrder: the segments are clustered in the order given.
GroupOrderUnsorted(gs) == [i \in 1..Len(gs) |-> i]

GroupOrder(gs) == SortIndices([i \in 1..Len(gs) |-> GroupKey(gs[i])])

\* Variant of OnInvalid: without an open line the segment is not emitted.
OnInvalidDrops(st, i) ==
    IF st.current_line # <<>>
    THEN [st EXCEPT !.current_line = Append(@, i)]
    ELSE [st EXCEPT !.current_y = Unset]

\* Variant of OnInvalid: without an open line the segment opens one.
OnInvalidOpens(st, i) ==
    IF st.current_line # <<>>
    THEN [st EXCEPT !.current_line = Append(@, i)]
    ELSE [st EXCEPT !.current_line = <<i>>, !.current_y = Unset]

\* Variant of OnInvalid: current_y = None on both branches.
OnInvalidResets(st, i) ==
    IF st.current_line # <<>>
    THEN [st EXCEPT !.current_line = Append(@, i), !.current_y = Unset]
    ELSE [st EXCEPT !.lines = Append(@, <<i>>), !.current_y = Unset]

\* Variant of OnInvalid: always a line of its own.
OnInvalidAlone(st, i) ==
    [st EXCEPT !.lines = Append(@, <<i>>), !.current_y = Unset]

\* Lines 141-147: the loop body for a segment without geometry.  st is
\* [lines, current_line, current_y]; i is the index of the segment.
OnInvalid(st, i) ==
    IF st.current_line # <<>>
    THEN [st EXCEPT !.current_line = Append(@, i)]
    ELSE [st EXCEPT !.lines = Append(@, <<i>>), !.current_y = Unset]

\* Variant of OnValid: every appended segment becomes the reference row.
OnValidShifts(st, i, cy, thr) ==
    IF ~st.current_y.set \/ Abs(cy - st.current_y.v) <= thr
    THEN [st EXCEPT !.current_line = Append(@, i), !.current_y = SetTo(cy)]
    ELSE [lines |-> IF st.current_line # <<>>
                    THEN Append(st.lines, st.current_line) ELSE st.lines,
          current_line |-> <<i>>,
          current_y |-> SetTo(cy)]

\* Variant of OnValid: < in place of <=.
OnValidStrict(st, i, cy, thr) ==
    IF ~st.current_y.set \/ Abs(cy - st.current_y.v) < thr
    THEN [st EXCEPT !.current_line = Append(@, i),
                    !.current_y = IF @.set THEN @ ELSE SetTo(cy)]
    ELSE [lines |-> IF st.current_line # <<>>
                    THEN Append(st.lines, st.current_line) ELSE st.lines,
          current_line |-> <<i>>,
          current_y |-> SetTo(cy)]

\* Lines 148-157: the loop body for a segment with center_y = cy.
OnValid(st, i, cy, thr) ==
    IF ~st.current_y.set \/ Abs(cy - st.current_y.v) <= thr
    THEN [st EXCEPT !.current_line = Append(@, i),
                    !.current_y = IF @.set THEN @ ELSE SetTo(cy)]
    ELSE [lines |-> IF st.current_line # <<>>
                    THEN Append(st.lines, st.current_line) ELSE st.lines,
          current_line |-> <<i>>,
          current_y |-> SetTo(cy)]

LoopBody(st, i, g, thr) ==
    IF ~g.ok THEN OnInvalid(st, i) ELSE OnValid(st, i, g.cy, thr)

----------------------------------------------------------------------------
(* Inputs *)

TextA == <<"a">>
TextB == <<"b">>
\* A recognized text with a newline and a run of whitespace inside.
TextMulti == <<"c", NL, SP, "d">>

\* Boxes of the page inputs.  P and Q overlap vertically (center_y 2 and 3)
\* with P to the right of Q; R is a row further down.
PolyP == Rect(4, 0, 6, 4)
PolyQ == Rect(0, 1, 2, 5)
PolyR == Rect(0, 10, 2, 14)
\* Same center as R (center_y 12, center_x 1), taller: its top edge is higher.
PolyTall == Rect(0, 8, 2, 16)
\* The minima of PolyQ, another center.
PolyWide == Rect(0, 1, 4, 5)
\* Polygons without a usable point: no coordinate converts, or only x does.
PolyBad == BoxOf(<<PtRaw(BadNum, BadNum), PtScalar>>)
PolyHalf == BoxOf(<<PtRaw(Num(1), BadNum), PtShort>>)

PageSegs ==
    { SegNone, SegScalar(7), SegEmpty, SegBoxOnly(PolyP),
      Seg(PolyP, PayPair(TextA, 90)), Seg(PolyQ, PayPair(TextB, 80)),
      Seg(PolyR, PayPair(TextMulti, 70)), Seg(PolyQ, PayStr(TextMulti)),
      Seg(BoxNone, PayPair(TextA, 60)), Seg(BoxNone, PayPair(TextB, 50)),
      Seg(PolyBad, PayStr(TextB)), Seg(PolyHalf, PayPair(TextMulti, 40)),
      Seg(PolyP, PayIntPair(5, 30)), Seg(PolyR, PayNone),
      Seg(PolyQ, PayEmptySeq), Seg(PolyR, PayNonePair(20)),
      Seg(PolyTall, PayPair(TextB, 10)),
      Seg(PolyWide, PayPair(TextA, 95)) }

SeqsUpTo(S, n) == UNION {[1..m -> S] : m \in 0..n}

EmptyDict ==
    [dt_polys |-> Absent, dt_boxes |-> Absent, boxes |-> Absent,
     rec_texts |-> Absent, texts |-> Absent,
     rec_scores |-> Absent, scores |-> Absent]

\* The i-th entries of the parallel arrays of a dict result.
DictPolyAt(i) == CASE i % 3 = 1 -> PolyP [] i % 3 = 2 -> PolyR [] OTHER -> PolyQ
DictTextAt(i) ==
    IF i % 3 = 0 THEN [e0 |-> "int", text |-> <<>>, n |-> 40 + i]
    ELSE [e0 |-> "str", text |-> <<"t", Digit(i % 10)>>, n |-> 0]
DictScoreAt(i) == 100 - i

\* A parallel array: absent, or a prefix of items.
ArrayValues(items) ==
    {Absent} \cup {ListOf(SubSeq(items, 1, m)) : m \in 0..Len(items)}

Dicts ==
    { [EmptyDict EXCEPT !.dt_polys = p, !.dt_boxes = b,
                        !.rec_texts = t, !.texts = u, !.rec_scores = c] :
        p \in ArrayValues([i \in 1..MaxSegs |-> DictPolyAt(i)]) \cup {OtherObject},
        b \in {Absent, ListOf(<<PolyQ>>)},
        t \in ArrayValues([i \in 1..MaxSegs |-> DictTextAt(i)]),
        u \in {Absent, ListOf(<<[e0 |-> "str", text |-> TextMulti, n |-> 0]>>)},
        c \in ArrayValues([i \in 1..MaxSegs |-> DictScoreAt(i)]) }

\* result of engine.ocr: falsy (None or empty), or a list whose first element
\* raw is None, a list of segments, a dict, or some other object.
NoResult == [present |-> FALSE, raw |-> [kind |-> "none", segs |-> <<>>, d |-> EmptyDict]]
RawOf(kind, segs, d) == [present |-> TRUE, raw |-> [kind |-> kind, segs |-> segs, d |-> d]]

Results ==
    {NoResult, RawOf("none", <<>>, EmptyDict), RawOf("other", <<>>, EmptyDict)}
    \cup {RawOf("list", segs, EmptyDict) : segs \in SeqsUpTo(PageSegs, MaxSegs)}
    \cup {RawOf("dict", <<>>, d) : d \in Dicts}

\* Boxes of the clustering inputs, by (center_y, height, center_x) in pixels.
GroupPolys ==
    { BoxNone, PolyBad,
      Rect(0, 0, 2, 4),       \* cy 2    h 4   cx 1
      Rect(4, 0, 6, 4),       \* cy 2    h 4   cx 5
      Rect(2, 2, 4, 6),       \* cy 4    h 4   cx 3: 2.0 below cy 2
      Rect(0, 3, 2, 6),       \* cy 4.5  h 3   cx 1: 2.5 below cy 2
      Rect(0, 4, 2, 8),       \* cy 6    h 4   cx 1
      Rect(0, -6, 2, -2),     \* cy -4   h 4   cx 1: sorts before (0, 0)
      Rect(-1, -2, 1, 2),     \* cy 0    h 4   cx 0: sorts as (0, 0)
      Rect(0, 0, 2, 10),      \* cy 5    h 10  cx 1
      Rect(4, 4, 6, 14),      \* cy 9    h 10  cx 5: 4.0 below cy 5
      BoxOf(<<Pt(3, 3)>>) }   \* cy 3    h 0   cx 3: a single point

GroupSegs == {Seg(b, PayPair(TextA, 90)) : b \in GroupPolys} \cup {SegNone, SegScalar(7)}

----------------------------------------------------------------------------
(* State *)

VARIABLES
    pc,            \* position in extract_text_from_image / _group_into_lines
    result,        \* what engine.ocr returned
    ocr_lines,     \* lines of extract_text_from_image (lines 193-197)
    sorted_lines,  \* lines in reading order (line 214)
    segments,      \* argument of _group_into_lines
    geoms, y_threshold, indices,  \* locals of _group_into_lines
    k,             \* position of the for loop in indices
    lines, current_line, current_y,
    text,          \* the returned string
    outcome,       \* "pending", or how the call ended
    _ocr_engine,   \* the module global: 0 for None, else the handle
    requests,      \* each /ocr request: position, pages left, handles got
    running,       \* the coroutine that holds the event loop, 0 for none
    constructed    \* PaddleOCR(...) calls that have returned

vars == <<pc, result, ocr_lines, sorted_lines, segments, geoms, y_threshold,
          indices, k, lines, current_line, current_y, text, outcome,
          _ocr_engine, requests, running, constructed>>

engineVars == <<_ocr_engine, requests, running, constructed>>

Reqs == 1..MaxReqs

NewRequest == [pc |-> "new", pages |-> 0, got |-> {}]

\* No /ocr request is under way.
EngineIdle ==
    /\ _ocr_engine = 0
    /\ requests = [r \in Reqs |-> NewRequest]
    /\ running = 0
    /\ constructed = 0

groupLocals == <<geoms, y_threshold, indices, k, lines, current_line, current_y>>

InitLocals ==
    /\ ocr_lines = <<>> /\ sorted_lines = <<>>
    /\ geoms = <<>> /\ y_threshold = 0 /\ indices = <<>> /\ k = 0
    /\ lines = <<>> /\ current_line = <<>> /\ current_y = Unset
    /\ text = <<>> /\ outcome = "pending"

\* extract_text_from_image just after engine.ocr returned (line 184).
Init ==
    /\ pc = "extract"
    /\ result \in Results
    /\ segments = <<>>
    /\ InitLocals
    /\ EngineIdle

\* A direct call of _group_into_lines(segments).
InitGroup ==
    /\ pc = "group"
    /\ result = NoResult
    /\ segments \in SeqsUpTo(GroupSegs, MaxSegs)
    /\ InitLocals
    /\ EngineIdle

----------------------------------------------------------------------------
(* extract_text_from_image *)

Return(how, t) ==
    /\ pc' = "done"
    /\ outcome' = how
    /\ text' = t

\* Lines 184-199: the page's segment list, or "" when there is none.  (The
\* diagnostic sample of lines 201-212 reads the list and keeps nothing.)
PageLines(res) ==
    IF ~res.present \/ res.raw.kind = "none" THEN <<>>
    ELSE IF res.raw.kind = "dict" THEN _result_dict_to_lines(res.raw.d)
    ELSE IF res.raw.kind = "list" THEN res.raw.segs
    ELSE <<>>

\* Variant of NormalizeResult: the empty list is not returned early.
NormalizeResultNoEarlyReturn ==
    /\ pc = "extract"
    /\ ocr_lines' = PageLines(result)
    /\ pc' = "sort"
    /\ UNCHANGED <<text, outcome>>
    /\ UNCHANGED <<result, sorted_lines, segments, groupLocals>>
    /\ UNCHANGED engineVars

NormalizeResult ==
    /\ pc = "extract"
    /\ IF PageLines(result) = <<>>
       THEN /\ Return("empty", <<>>)
            /\ UNCHANGED ocr_lines
       ELSE /\ ocr_lines' = PageLines(result)
            /\ pc' = "sort"
            /\ UNCHANGED <<text, outcome>>
    /\ UNCHANGED <<result, sorted_lines, segments, groupLocals>>
    /\ UNCHANGED engineVars

\* Variant of SortByReadingOrder: clustering is given the raw list.
SortByReadingOrderSkipped ==
    /\ pc = "sort"
    /\ IF SortRaises(ocr_lines)
       THEN /\ Return("raised", <<>>)
            /\ UNCHANGED <<sorted_lines, segments>>
       ELSE /\ sorted_lines' = ocr_lines
            /\ segments' = sorted_lines'
            /\ pc' = "group"
            /\ UNCHANGED <<text, outcome>>
    /\ UNCHANGED <<result, ocr_lines, groupLocals>>
    /\ UNCHANGED engineVars

\* Line 214, outside the try: an exception of _parse_box reaches the caller.
\* Line 227 passes sorted_lines to _group_into_lines.
SortByReadingOrder ==
    /\ pc = "sort"
    /\ IF SortRaises(ocr_lines)
       THEN /\ Return("raised", <<>>)
            /\ UNCHANGED <<sorted_lines, segments>>
       ELSE /\ sorted_lines' = _sort_by_reading_order(ocr_lines)
            /\ segments' = sorted_lines'
            /\ pc' = "group"
            /\ UNCHANGED <<text, outcome>>
    /\ UNCHANGED <<result, ocr_lines, groupLocals>>
    /\ UNCHANGED engineVars

\* Lines 118-137 of _group_into_lines.
GroupPrepare ==
    /\ pc = "group"
    /\ IF segments = <<>>
       THEN /\ pc' = "grouped"
            /\ UNCHANGED groupLocals
       ELSE IF GeomsRaise(segments)
       THEN /\ pc' = "except"
            /\ UNCHANGED groupLocals
       ELSE /\ geoms' = Geoms(segments)
            /\ y_threshold' = YThreshold(geoms')
            /\ indices' = GroupOrder(geoms')
            /\ lines' = <<>>
            /\ current_line' = <<>>
            /\ current_y' = Unset
            /\ k' = 1
            /\ pc' = "loop"
    /\ UNCHANGED <<result, ocr_lines, sorted_lines, segments, text, outcome>>
    /\ UNCHANGED engineVars

\* Lines 138-157: one iteration of the for loop.
GroupStep ==
    /\ pc = "loop"
    /\ k <= Len(indices)
    /\ LET i == indices[k]
           st == LoopBody([lines |-> lines, current_line |-> current_line,
                           current_y |-> current_y], i, geoms[i], y_threshold)
       IN  /\ lines' = st.lines
           /\ current_line' = st.current_line
           /\ current_y' = st.current_y
    /\ k' = k + 1
    /\ UNCHANGED <<pc, result, ocr_lines, sorted_lines, segments, geoms,
                   y_threshold, indices, text, outcome>>
    /\ UNCHANGED engineVars

\* Lines 158-160: emit the open line and return.
\* Variant of FinalLines: the open line is not flushed.
FinalLinesDropped(lns, cur) == lns

FinalLines(lns, cur) == IF cur # <<>> THEN Append(lns, cur) ELSE lns

GroupFinish ==
    /\ pc = "loop"
    /\ k > Len(indices)
    /\ lines' = FinalLines(lines, current_line)
    /\ pc' = "grouped"
    /\ UNCHANGED <<result, ocr_lines, sorted_lines, segments, geoms,
                   y_threshold, indices, k, current_line, current_y, text,
                   outcome>>
    /\ UNCHANGED engineVars

\* Lines 228-235, inside the try: any exception enters the handler.
Assemble ==
    /\ pc = "grouped"
    /\ IF (lines = <<>> /\ sorted_lines # <<>>) \/ TextsRaise(sorted_lines)
       THEN /\ pc' = "except"
            /\ UNCHANGED <<text, outcome>>
       ELSE Return("grouped", GroupedText(sorted_lines, lines))
    /\ UNCHANGED <<result, ocr_lines, sorted_lines, segments, groupLocals>>
    /\ UNCHANGED engineVars

\* Lines 236-239: the handler itself is not guarded.
FlatFallback ==
    /\ pc = "except"
    /\ IF TextsRaise(sorted_lines)
       THEN Return("raised", <<>>)
       ELSE Return("flat", FlatText(sorted_lines))
    /\ UNCHANGED <<result, ocr_lines, sorted_lines, segments, groupLocals>>
    /\ UNCHANGED engineVars

GroupNext == GroupPrepare \/ GroupStep \/ GroupFinish

Next ==
    \/ NormalizeResult
    \/ SortByReadingOrder
    \/ GroupPrepare
    \/ GroupStep
    \/ GroupFinish
    \/ Assemble
    \/ FlatFallback

Spec == Init /\ [][Next]_vars

SpecGroup == InitGroup /\ [][GroupNext]_vars

----------------------------------------------------------------------------
(* The call as a function of the page *)

\* Lines 138-159 from the j-th index on.
RECURSIVE ClusterFrom(_, _, _, _, _)
ClusterFrom(st, order, j, gs, thr) ==
    IF j > Len(order) THEN FinalLines(st.lines, st.current_line)
    ELSE ClusterFrom(LoopBody(st, order[j], gs[order[j]], thr),
                     order, j + 1, gs, thr)

\* _group_into_lines(segs) for a list on which _segment_geometry returns:
\* the lines, as indices into segs.
_group_into_lines(segs) ==
    IF segs = <<>> THEN <<>>
    ELSE ClusterFrom([lines |-> <<>>, current_line |-> <<>>, current_y |-> Unset],
                     GroupOrder(Geoms(segs)), 1, Geoms(segs),
                     YThreshold(Geoms(segs)))

\* Lines 214 and 227-235: the text returned for the page's segment list.
PageText(lns) ==
    GroupedText(_sort_by_reading_order(lns),
                _group_into_lines(_sort_by_reading_order(lns)))

----------------------------------------------------------------------------
(* _normalize_whitespace on its own *)

Chars == {"a", SP, NL, TAB}

\* The line string of a line of one segment whose payload is the str s.
InitNormalize ==
    /\ pc = "normalize"
    /\ result = NoResult
    /\ segments \in {<<Seg(BoxNone, PayStr(s))>> : s \in SeqsUpTo(Chars, MaxLen)}
    /\ InitLocals
    /\ EngineIdle

\* Lines 232-234 for that line: normalized_lines[0].
NormalizeLine ==
    /\ pc = "normalize"
    /\ text' = _normalize_whitespace(LineString(segments, <<1>>))
    /\ pc' = "normalized"
    /\ UNCHANGED <<result, ocr_lines, sorted_lines, segments, groupLocals, outcome>>
    /\ UNCHANGED engineVars

\* _normalize_whitespace applied to its own result.
NormalizeAgain ==
    /\ pc = "normalized"
    /\ text' = _normalize_whitespace(text)
    /\ pc' = "renormalized"
    /\ UNCHANGED <<result, ocr_lines, sorted_lines, segments, groupLocals, outcome>>
    /\ UNCHANGED engineVars

NormalizeNext == NormalizeLine \/ NormalizeAgain

SpecNormalize == InitNormalize /\ [][NormalizeNext]_vars

----------------------------------------------------------------------------
(* _parse_box on its own *)

\* Points of every kind: two numbers, one or two coordinates that do not
\* convert, too short, not a sequence.
BoxPoints ==
    {Pt(x, y) : x \in 0..MaxCoord, y \in 0..MaxCoord}
    \cup {PtRaw(Num(x), BadNum) : x \in 0..MaxCoord}
    \cup {PtRaw(BadNum, Num(y)) : y \in 0..MaxCoord}
    \cup {PtRaw(BadNum, BadNum), PtShort, PtScalar}

BoxSegs ==
    {SegNone, SegEmpty, SegBoxOnly(BoxNone), Seg(BoxNone, PayPair(TextA, 90)),
     Seg(BoxOther, PayPair(TextA, 90))}
    \cup {Seg(BoxOf(pts), PayPair(TextA, 90)) : pts \in SeqsUpTo(BoxPoints, MaxPts)}

\* _group_into_lines([segment]): geoms[0] is _segment_geometry(segment).
InitBox ==
    /\ pc = "group"
    /\ result = NoResult
    /\ segments \in {<<seg>> : seg \in BoxSegs}
    /\ InitLocals
    /\ EngineIdle

SpecBox == InitBox /\ [][GroupNext]_vars

----------------------------------------------------------------------------
(* _get_ocr_engine under /ocr requests *)

pipelineVars ==
    <<pc, result, ocr_lines, sorted_lines, segments, groupLocals, text, outcome>>

\* Variant of MayStep: every request's handler runs on a thread of its own.
MayStepThreaded(r) == requests[r].pc # "failed"

\* ocr_extract is a coroutine (async def): it takes the event loop when the
\* loop is free and keeps it until its next await or its end; lines 114-137
\* hold no await.
MayStep(r) ==
    \/ running = r
    \/ running = 0 /\ requests[r].pc \in {"new", "awaiting"}

\* main.py lines 87-106: up to `await file.read()`.
Receive(r) ==
    /\ requests[r].pc = "new"
    /\ MayStep(r)
    /\ requests' = [requests EXCEPT ![r].pc = "awaiting"]
    /\ UNCHANGED <<_ocr_engine, running, constructed>>
    /\ UNCHANGED pipelineVars

\* main.py lines 107-126: the document has n pages; extract_text_from_image
\* is called for each, in the coroutine itself.
Resume(r) ==
    /\ requests[r].pc = "awaiting"
    /\ MayStep(r)
    /\ \E n \in 0..MaxPages :
          IF n = 0
          THEN /\ requests' = [requests EXCEPT ![r].pc = "finished"]
               /\ UNCHANGED running
          ELSE /\ requests' = [requests EXCEPT ![r].pc = "call", ![r].pages = n]
               /\ running' = r
    /\ UNCHANGED <<_ocr_engine, constructed>>
    /\ UNCHANGED pipelineVars

\* ocr.py line 175 -> line 21: `if _ocr_engine is None`.
CheckEngine(r) ==
    /\ requests[r].pc = "call"
    /\ MayStep(r)
    /\ requests' = [requests EXCEPT
                       ![r].pc = IF _ocr_engine = 0 THEN "construct" ELSE "return"]
    /\ UNCHANGED <<_ocr_engine, running, constructed>>
    /\ UNCHANGED pipelineVars

\* ocr.py lines 22-28: PaddleOCR(...) returns a new handle, which is
\* assigned to the global, or raises, which ends the request (line 175 is
\* in no try) and assigns nothing.
Construct(r) ==
    /\ requests[r].pc = "construct"
    /\ MayStep(r)
    /\ \E ok \in BOOLEAN :
          IF ok
          THEN /\ constructed' = constructed + 1
               /\ _ocr_engine' = constructed + 1
               /\ requests' = [requests EXCEPT ![r].pc = "return"]
               /\ UNCHANGED running
          ELSE /\ requests' = [requests EXCEPT ![r].pc = "failed"]
               /\ running' = IF running = r THEN 0 ELSE running
               /\ UNCHANGED <<_ocr_engine, constructed>>
    /\ UNCHANGED pipelineVars

\* ocr.py line 30 and the rest of the page; main.py lines 119-137.
ReturnEngine(r) ==
    /\ requests[r].pc = "return"
    /\ MayStep(r)
    /\ IF requests[r].pages = 1
       THEN /\ requests' = [requests EXCEPT
                               ![r].got = @ \cup {_ocr_engine},
                               ![r].pages = 0, ![r].pc = "finished"]
            /\ running' = IF running = r THEN 0 ELSE running
       ELSE /\ requests' = [requests EXCEPT
                               ![r].got = @ \cup {_ocr_engine},
                               ![r].pages = @ - 1, ![r].pc = "call"]
            /\ UNCHANGED running
    /\ UNCHANGED <<_ocr_engine, constructed>>
    /\ UNCHANGED pipelineVars

InitEngine ==
    /\ pc = "engine"
    /\ result = NoResult
    /\ segments = <<>>
    /\ InitLocals
    /\ EngineIdle

EngineNext ==
    \/ \E r \in Reqs : Receive(r)
    \/ \E r \in Reqs : Resume(r)
    \/ \E r \in Reqs : CheckEngine(r)
    \/ \E r \in Reqs : Construct(r)
    \/ \E r \in Reqs : ReturnEngine(r)

SpecEngine == InitEngine /\ [][EngineNext]_vars

----------------------------------------------------------------------------
(* Properties *)

IsPermutation(s, n) ==
    /\ Len(s) = n
    /\ \A i \in 1..n : \E j \in 1..n : s[j] = i

Valid(seg) == ~_parse_box(seg).raises /\ _parse_box(seg).ok
Invalid(seg) == ~_parse_box(seg).raises /\ ~_parse_box(seg).ok

HasValid(segs) == \E i \in 1..Len(segs) : Valid(segs[i])
HasInvalid(segs) == \E i \in 1..Len(segs) : Invalid(segs[i])

\* The line, by its position in lines, that holds segment index i.
LineOf(i) == CHOOSE l \in 1..Len(lines) : i \in Range(lines[l])

\* C1: when _group_into_lines returns, the concatenation of its lines holds
\* every index of the input list exactly once.
C1_TotalCoverage ==
    pc = "grouped" => IsPermutation(Flatten(lines), Len(segments))

C1_Witness ==
    /\ pc = "grouped"
    /\ Len(segments) >= 3
    /\ HasValid(segments) /\ HasInvalid(segments)
    /\ Len(lines) >= 2
    /\ Flatten(lines) # [i \in 1..Len(segments) |-> i]

\* C2: extract_text_from_image never ends with an exception.
C2_NeverRaises == outcome # "raised"

C4_ThresholdBoundary ==
    (pc = "grouped" /\ Len(segments) = 2 /\ Valid(segments[1]) /\ Valid(segments[2]))
    => LET d == Abs(geoms[1].cy - geoms[2].cy)
       IN  /\ d = y_threshold => (Len(lines) = 1 /\ Len(lines[1]) = 2)
           /\ d > y_threshold => (Len(lines) = 2 /\ LineOf(1) # LineOf(2))

C4_Witness ==
    /\ pc = "grouped" /\ Len(segments) = 2
    /\ Valid(segments[1]) /\ Valid(segments[2])
    /\ Abs(geoms[1].cy - geoms[2].cy) = y_threshold
    /\ Len(lines) = 1

AllValid(segs) == segs # <<>> /\ \A i \in 1..Len(segs) : Valid(segs[i])

\* All center_y within the threshold of each other, all center_x different.
OneRow(segs) ==
    LET gs == Geoms(segs)
    IN  /\ \A i, j \in 1..Len(segs) : Abs(gs[i].cy - gs[j].cy) <= YThreshold(gs)
        /\ \A i, j \in 1..Len(segs) : i # j => gs[i].cx # gs[j].cx

\* The indices of segs by ascending center_x.
ByCenterX(segs) ==
    SortIndices([i \in 1..Len(segs) |-> <<Geoms(segs)[i].cx, 0>>])

\* C5: segments with geometry whose center_y are all within the threshold and
\* whose center_x differ come out as one line, texts by ascending center_x.
C5_OrderStability ==
    (pc = "done" /\ AllValid(ocr_lines) /\ OneRow(ocr_lines))
    => /\ outcome = "grouped"
       /\ text = _normalize_whitespace(LineString(ocr_lines, ByCenterX(ocr_lines)))

\* center_y of the first member of a line that has geometry.
RefCy(line) ==
    LET j == CHOOSE j \in 1..Len(line) :
                 /\ geoms[line[j]].ok
                 /\ \A m \in 1..(j - 1) : ~geoms[line[m]].ok
    IN  geoms[line[j]].cy

LineHasValid(line) == \E j \in 1..Len(line) : geoms[line[j]].ok

\* C6: of two consecutive returned lines that both hold a segment with
\* geometry, the later one's reference center_y is more than y_threshold
\* below the earlier one's.
C6_VerticalOrder ==
    (pc = "grouped" /\ segments # <<>>)
    => \A l \in 1..(Len(lines) - 1) :
          (LineHasValid(lines[l]) /\ LineHasValid(lines[l + 1]))
          => RefCy(lines[l + 1]) - RefCy(lines[l]) > y_threshold

C6_Witness ==
    /\ pc = "grouped"
    /\ \E l \in 1..(Len(lines) - 1) :
          LineHasValid(lines[l]) /\ LineHasValid(lines[l + 1])

\* Every segment is a sequence whose polygon gives no box.
AllUnparseable(segs) ==
    /\ segs # <<>>
    /\ \A i \in 1..Len(segs) : segs[i].kind = "seq" /\ Invalid(segs[i])

InputOrder(segs) == [i \in 1..Len(segs) |-> i]

LeadingInvalidRun(a, b) ==
    /\ 1 <= a /\ a < b /\ b <= Len(indices)
    /\ \A m \in 1..b : ~geoms[indices[m]].ok

AtInvalid == pc = "loop" /\ k <= Len(indices) /\ ~geoms[indices[k]].ok

Occurrences(s, e) == Cardinality({j \in 1..Len(s) : s[j] = e})

\* C9: current_y is unset or the center_y of a segment with geometry;
\* handling a segment without geometry leaves current_y as it was and puts
\* the segment exactly once into the lines.
C9_InvalidGeometrySafety ==
    /\ [](current_y.set =>
             \E i \in 1..Len(geoms) : geoms[i].ok /\ geoms[i].cy = current_y.v)
    /\ [][AtInvalid =>
             /\ current_y' = current_y
             /\ Occurrences(Flatten(lines') \o current_line', indices[k]) = 1]_vars

C9_Witness ==
    /\ pc = "loop" /\ k > 1
    /\ ~geoms[indices[k - 1]].ok
    /\ current_y.set
    /\ indices[k - 1] \in Range(current_line)

ItemsOf(v) == IF v.kind = "list" THEN v.items ELSE <<>>

\* The first truthy value among the values vs, else the last one.
RECURSIVE FirstTruthy(_)
FirstTruthy(vs) ==
    IF Len(vs) = 1 \/ Truthy(Head(vs)) THEN Head(vs) ELSE FirstTruthy(Tail(vs))

\* C10: a dict result gives min(len(polygons), len(texts)) segments, the i-th
\* of polygon i, text i and score i (0.0 without one); without polygons or
\* texts there is no segment and the page text is empty.
C10_DictNormalization ==
    LET d == result.raw.d
        polys == FirstTruthy(<<d.dt_polys, d.dt_boxes, d.boxes>>)
        texts == FirstTruthy(<<d.rec_texts, d.texts>>)
        scores == ItemsOf(FirstTruthy(<<d.rec_scores, d.scores>>))
        n == Min2(Len(ItemsOf(polys)), Len(ItemsOf(texts)))
    IN  (pc # "extract" /\ result.present /\ result.raw.kind = "dict"
         /\ polys.kind # "other" /\ texts.kind # "other")
        => /\ Len(ocr_lines) = n
           /\ \A i \in 1..n :
                 /\ ocr_lines[i].kind = "seq" /\ ocr_lines[i].len = 2
                 /\ ocr_lines[i].box = polys.items[i]
                 /\ ocr_lines[i].payload.e0 = texts.items[i].e0
                 /\ ocr_lines[i].payload.text = texts.items[i].text
                 /\ ocr_lines[i].payload.n = texts.items[i].n
                 /\ ocr_lines[i].payload.conf =
                        IF i <= Len(scores) THEN scores[i] ELSE 0
           /\ n = 0 => (pc = "done" /\ outcome = "empty" /\ text = <<>>)

C10_Witness ==
    /\ pc = "sort" /\ result.present /\ result.raw.kind = "dict"
    /\ Len(result.raw.d.dt_polys.items) = 3
    /\ Len(result.raw.d.rec_texts.items) = 2
    /\ Len(result.raw.d.rec_scores.items) = 1
    /\ Len(ocr_lines) = 2

\* C11: without a result, without a page, or with an empty segment list the
\* call returns "" at once: nothing is sorted, clustered or assembled.
C11_EmptyInput ==
    (/\ pc # "extract"
     /\ \/ ~result.present
        \/ result.raw.kind = "none"
        \/ (result.raw.kind = "list" /\ result.raw.segs = <<>>))
    => /\ pc = "done" /\ outcome = "empty" /\ text = <<>>
       /\ ocr_lines = <<>> /\ sorted_lines = <<>> /\ segments = <<>>
       /\ geoms = <<>> /\ indices = <<>> /\ lines = <<>>

C11_Witness ==
    /\ pc = "done" /\ outcome = "empty" /\ text = <<>>
    /\ result.present /\ result.raw.kind = "list" /\ result.raw.segs = <<>>

Count(s, e) == Cardinality({j \in 1..Len(s) : s[j] = e})

EndsWith(s, e) == s # <<>> /\ s[Len(s)] = e

\* C12 as claimed: the text of k clustered lines has k - 1 newlines and does
\* not end with one.
C12_NoTrailingNewline ==
    outcome = "grouped"
    => /\ Count(text, NL) = Len(lines) - 1
       /\ ~EndsWith(text, NL)

\* C12 as amended: the text of k clustered lines has k - 1 newlines, and
\* ends with one only when the last line's normalized string is empty.
C12_GroupedAssembly ==
    outcome = "grouped"
    => /\ Count(text, NL) = Len(lines) - 1
       /\ EndsWith(text, NL) =>
             (/\ Len(lines) >= 2
              /\ _normalize_whitespace(
                     LineString(sorted_lines, lines[Len(lines)])) = <<>>)
       /\ \A j \in 1..(Len(text) - 1) : ~(text[j] = NL /\ text[j + 1] = SP)

C12_Witness ==
    /\ outcome = "grouped" /\ Len(lines) >= 2
    /\ \E i \in 1..Len(sorted_lines) :
          NL \in Range(_segment_text(sorted_lines[i]).text)
    /\ \E i \in 1..Len(sorted_lines) : _segment_text(sorted_lines[i]).text = <<>>
    /\ ~EndsWith(text, NL)

\* C13: a normalized string has no whitespace at either end, no newline or
\* tab, and no two whitespace characters in a row; normalizing it again
\* gives the same string.
C13_NormalizeIdempotent ==
    /\ [](pc \in {"normalized", "renormalized"} =>
             /\ text = <<>> \/ (text[1] \notin Whitespace
                                /\ text[Len(text)] \notin Whitespace)
             /\ NL \notin Range(text) /\ TAB \notin Range(text)
             /\ \A j \in 1..(Len(text) - 1) :
                   ~(text[j] \in Whitespace /\ text[j + 1] \in Whitespace))
    /\ [][pc = "normalized" => text' = text]_vars

C13_Witness ==
    /\ pc = "renormalized"
    /\ text = <<"a", SP, "a">>
    /\ segments[1].payload.text = <<SP, "a", NL, TAB, "a">>

\* Positions m - 1 and m of the processing order both hold a segment with
\* geometry.
ValidPair(m) ==
    /\ 2 <= m /\ m <= Len(indices)
    /\ geoms[indices[m - 1]].ok /\ geoms[indices[m]].ok

\* C14: every member with geometry is within y_threshold of its line's first
\* member with geometry, and a segment farther than that from the reference
\* of its predecessor's line starts a new line, however close it is to the
\* predecessor itself.
C14_FixedRowReference ==
    (pc = "grouped" /\ segments # <<>>)
    => /\ \A l \in 1..Len(lines) : \A j \in 1..Len(lines[l]) :
             geoms[lines[l][j]].ok
             => Abs(geoms[lines[l][j]].cy - RefCy(lines[l])) <= y_threshold
       /\ \A m \in 1..Len(indices) :
             (/\ ValidPair(m)
              /\ Abs(geoms[indices[m]].cy
                     - RefCy(lines[LineOf(indices[m - 1])])) > y_threshold)
             => /\ LineOf(indices[m]) = LineOf(indices[m - 1]) + 1
                /\ lines[LineOf(indices[m])][1] = indices[m]

C14_Witness ==
    /\ pc = "grouped"
    /\ \E m \in 1..Len(indices) :
          /\ ValidPair(m)
          /\ Abs(geoms[indices[m]].cy - geoms[indices[m - 1]].cy) <= y_threshold
          /\ LineOf(indices[m]) # LineOf(indices[m - 1])

InvalidAt(a) == ~geoms[indices[a]].ok
ValidAt(b) == geoms[indices[b]].ok
KeyAt(b) == <<geoms[indices[b]].cy, geoms[indices[b]].cx>>

\* C15 as claimed: every segment without geometry is processed before every
\* segment with geometry.
C15_InvalidFirst ==
    pc \in {"loop", "grouped"}
    => \A a, b \in 1..Len(indices) : (InvalidAt(a) /\ ValidAt(b)) => a < b

\* C15 as amended: a segment without geometry is processed before every
\* segment whose (center_y, center_x) is greater than (0, 0), after every
\* segment whose (center_y, center_x) is smaller than (0, 0), and in input
\* order relative to a segment at exactly (0, 0).
C15_InvalidAtOrigin ==
    pc \in {"loop", "grouped"}
    => \A a, b \in 1..Len(indices) :
          (InvalidAt(a) /\ ValidAt(b))
          => /\ KeyLess(<<0, 0>>, KeyAt(b)) => a < b
             /\ KeyLess(KeyAt(b), <<0, 0>>) => b < a
             /\ KeyAt(b) = <<0, 0>> => (a < b <=> indices[a] < indices[b])

C15_Witness ==
    /\ pc = "loop"
    /\ \E a, b \in 1..Len(indices) :
          /\ InvalidAt(a) /\ ValidAt(b)
          /\ KeyLess(<<0, 0>>, KeyAt(b))
          /\ indices[b] < indices[a]
    /\ \E a, b \in 1..Len(indices) :
          InvalidAt(a) /\ ValidAt(b) /\ KeyLess(KeyAt(b), <<0, 0>>)

\* The input indices of the segments with a box, and their heights in tenths.
ValidIndices(segs) == {i \in 1..Len(segs) : Valid(segs[i])}
HeightOf(seg) == 10 * (_parse_box(seg).max_y - _parse_box(seg).min_y)

\* The n-th smallest height among the segments with a box.
NthHeight(segs, n) ==
    CHOOSE v \in {HeightOf(segs[i]) : i \in ValidIndices(segs)} :
        /\ Cardinality({i \in ValidIndices(segs) : HeightOf(segs[i]) < v}) < n
        /\ Cardinality({i \in ValidIndices(segs) : HeightOf(segs[i]) <= v}) >= n

\* 0.4 * max(median, 5.0), or 0.4 * 10.0 without a height, in tenths.
ExpectedThreshold(segs) ==
    LET n == Cardinality(ValidIndices(segs))
        med == IF n % 2 = 1 THEN NthHeight(segs, (n + 1) \div 2)
               ELSE (NthHeight(segs, n \div 2) + NthHeight(segs, n \div 2 + 1)) \div 2
    IN  IF n = 0 THEN 40
        ELSE IF med > 50 THEN (4 * med) \div 10 ELSE 20

\* C18: y_threshold is 0.4 * max(median height of the segments with a box,
\* 5.0), or 4.0 when no segment has a box; it is at least 2.0 and stays the
\* same through the loop.
C18_ThresholdDerivation ==
    /\ []((pc \in {"loop", "grouped"} /\ segments # <<>>) =>
             (y_threshold = ExpectedThreshold(segments) /\ y_threshold >= 20))
    /\ [][pc = "loop" => y_threshold' = y_threshold]_vars

C18_Witness ==
    /\ pc = "grouped"
    /\ HasInvalid(segments)
    /\ Cardinality(ValidIndices(segments)) = 2
    /\ y_threshold = 28

\* The points of a segment's polygon: all, and those with two numbers.
PolygonPoints(seg) ==
    IF seg.kind = "seq" /\ seg.len >= 1 /\ seg.box.kind = "seq"
    THEN seg.box.pts ELSE <<>>

NumericPoints(seg) ==
    SelectSeq(PolygonPoints(seg), LAMBDA p : p.seq /\ p.len >= 2 /\ p.x.ok /\ p.y.ok)

PointXs(pts) == {pts[j].x.v : j \in 1..Len(pts)}
PointYs(pts) == {pts[j].y.v : j \in 1..Len(pts)}

SetMin(S) == CHOOSE m \in S : \A e \in S : m <= e
SetMax(S) == CHOOSE m \in S : \A e \in S : m >= e

\* C16: the box is the bounding box of the points with two numbers; no other
\* point moves any of its sides.
C16_PointContribution ==
    (pc = "loop" /\ Len(segments) = 1 /\ geoms[1].ok)
    => LET b == _parse_box(segments[1])
           np == NumericPoints(segments[1])
       IN  /\ b.min_x = SetMin(PointXs(np)) /\ b.max_x = SetMax(PointXs(np))
           /\ b.min_y = SetMin(PointYs(np)) /\ b.max_y = SetMax(PointYs(np))
           /\ geoms[1].cx = 5 * (SetMin(PointXs(np)) + SetMax(PointXs(np)))

\* The converted coordinates of a polygon, point by point.
ConvertedXs(seg) ==
    {p.x.v : p \in {q \in Range(PolygonPoints(seg)) : q.seq /\ q.len >= 2 /\ q.x.ok}}
ConvertedYs(seg) ==
    {p.y.v : p \in {q \in Range(PolygonPoints(seg)) : q.seq /\ q.len >= 2 /\ q.y.ok}}

\* C17: _parse_box returns None exactly when the polygon has no point with
\* two numbers (missing, not a sequence and empty polygons included);
\* otherwise every side of the box is a coordinate of the polygon, and a
\* polygon of one point gives a box of no area, which is not None.
C17_NoBoundingBox ==
    (pc = "loop" /\ Len(segments) = 1)
    => LET seg == segments[1]
           b == _parse_box(seg)
       IN  /\ ~b.raises
           /\ b.ok <=> NumericPoints(seg) # <<>>
           /\ geoms[1].ok <=> b.ok
           /\ b.ok => /\ b.min_x \in ConvertedXs(seg) /\ b.max_x \in ConvertedXs(seg)
                      /\ b.min_y \in ConvertedYs(seg) /\ b.max_y \in ConvertedYs(seg)
                      /\ b.min_x <= b.max_x /\ b.min_y <= b.max_y
           /\ (Len(PolygonPoints(seg)) = 1 /\ b.ok)
              => (b.min_x = b.max_x /\ b.min_y = b.max_y /\ geoms[1].h = 0)

C17_Witness ==
    /\ pc = "loop" /\ Len(segments) = 1
    /\ Len(PolygonPoints(segments[1])) = 1
    /\ geoms[1].ok /\ geoms[1].h = 0
    /\ geoms[1].cx > 0 /\ geoms[1].cy > 0

Injections(n) ==
    {f \in [1..n -> 1..n] : \A a, b \in 1..n : a # b => f[a] # f[b]}

\* (min_y, min_x) of a segment's box, (0, 0) without one.
MinimaKey(seg) ==
    IF Valid(seg) THEN <<_parse_box(seg).min_y, _parse_box(seg).min_x>>
    ELSE <<0, 0>>

\* C19: what _sort_by_reading_order returns is its input rearranged so that
\* the keys (min_y, min_x), (0, 0) for a segment without a box, never
\* decrease, and segments of equal key stay in their input order.
C19_FlatReadingOrder ==
    pc = "group"
    => \E f \in Injections(Len(ocr_lines)) :
          /\ Len(sorted_lines) = Len(ocr_lines)
          /\ \A j \in 1..Len(ocr_lines) : sorted_lines[j] = ocr_lines[f[j]]
          /\ \A a, b \in 1..Len(ocr_lines) :
                a < b => /\ ~KeyLess(MinimaKey(ocr_lines[f[b]]), MinimaKey(ocr_lines[f[a]]))
                         /\ MinimaKey(ocr_lines[f[a]]) = MinimaKey(ocr_lines[f[b]])
                            => f[a] < f[b]

C19_Witness ==
    /\ pc = "group" /\ Len(ocr_lines) = 3
    /\ sorted_lines # ocr_lines
    /\ Valid(ocr_lines[1]) /\ Invalid(ocr_lines[2]) /\ Invalid(ocr_lines[3])
    /\ ocr_lines[2] # ocr_lines[3]
    /\ sorted_lines = <<ocr_lines[2], ocr_lines[3], ocr_lines[1]>>

\* All segments have the same (center_y, center_x).
SameCenters(segs) ==
    \A i, j \in 1..Len(segs) :
        /\ Geoms(segs)[i].cy = Geoms(segs)[j].cy
        /\ Geoms(segs)[i].cx = Geoms(segs)[j].cx

\* C20 as stated: clustering is given the raw list, and the text of a page
\* whose segments share one center follows the raw input order.
C20_SortOnlyOnFallback ==
    /\ pc \in {"loop", "grouped"} => segments = ocr_lines
    /\ (pc = "done" /\ outcome = "grouped" /\ AllValid(ocr_lines)
        /\ SameCenters(ocr_lines))
       => text = _normalize_whitespace(LineString(ocr_lines, InputOrder(ocr_lines)))

\* C20 as the code has it: the flat sort runs on every page that has
\* segments, before clustering; clustering and the handler read its output,
\* so the text of a page whose segments share one center follows the
\* (min_y, min_x) order, and the raw input order only among equal minima.
C20_SortBeforeClustering ==
    /\ pc \in {"group", "loop", "grouped", "except"}
       => /\ sorted_lines = _sort_by_reading_order(ocr_lines)
          /\ segments = sorted_lines
    /\ pc = "sort" => sorted_lines = <<>> /\ lines = <<>>
    /\ (pc = "done" /\ outcome = "grouped" /\ AllValid(ocr_lines)
        /\ SameCenters(ocr_lines))
       => text = _normalize_whitespace(
                    LineString(_sort_by_reading_order(ocr_lines),
                               InputOrder(ocr_lines)))

C20_Witness ==
    /\ pc = "done" /\ outcome = "grouped"
    /\ AllValid(ocr_lines) /\ SameCenters(ocr_lines)
    /\ sorted_lines # ocr_lines
    /\ text # _normalize_whitespace(LineString(ocr_lines, InputOrder(ocr_lines)))

\* The text the segment's shape stands for: the payload if it is a string,
\* the first element of a non-empty sequence payload, "" otherwise.
PayloadText(seg) ==
    IF seg.kind # "seq" \/ seg.len < 2 THEN <<>>
    ELSE IF seg.payload.kind = "str" THEN seg.payload.text
    ELSE IF seg.payload.kind = "seq" /\ seg.payload.len > 0
    THEN CASE seg.payload.e0 = "str" -> seg.payload.text
           [] seg.payload.e0 = "int" -> StrOfInt(seg.payload.n)
           [] OTHER -> StrOfNone
    ELSE <<>>

\* C21: whatever the shape of a segment handed to the assembly,
\* _segment_text returns its text without raising.
C21_DefensiveText ==
    pc = "grouped"
    => \A i \in 1..Len(sorted_lines) :
          /\ ~_segment_text(sorted_lines[i]).raises
          /\ _segment_text(sorted_lines[i]).text = PayloadText(sorted_lines[i])

\* C22: in one process the constructor returns at most once; every call of
\* _get_ocr_engine returns that one handle; a constructor that raises leaves
\* the global None, and the next call constructs again.
C22_EngineLoadedOnce ==
    /\ [](constructed <= 1)
    /\ [](_ocr_engine = IF constructed = 0 THEN 0 ELSE 1)
    /\ [](\A r \in Reqs : requests[r].got \subseteq {1})
    /\ [][\A r \in Reqs :
            (requests[r].pc = "construct" /\ requests'[r].pc = "failed")
            => (_ocr_engine' = 0 /\ constructed' = constructed)]_vars
    /\ [][\A r \in Reqs :
            (requests[r].pc = "call" /\ requests'[r].pc # "call")
            => requests'[r].pc = IF _ocr_engine = 0 THEN "construct" ELSE "return"]_vars

C22_Witness ==
    /\ constructed = 1
    /\ \E r, q \in Reqs :
          /\ requests[r].pc = "failed"
          /\ requests[q].pc = "finished" /\ requests[q].got = {1}

\* C23: _group_into_lines returns at least one line for a list that has
\* segments, and no line it builds is empty; so "grouping produced no lines"
\* (line 228) never holds, and the handler is entered only when
\* _segment_geometry or _segment_text raises.
C23_NoEmptyLines ==
    /\ []((pc = "grouped" /\ segments # <<>>) => lines # <<>>)
    /\ [](pc \in {"loop", "grouped"} => \A l \in 1..Len(lines) : lines[l] # <<>>)
    /\ [](pc = "grouped" => ~(lines = <<>> /\ sorted_lines # <<>>))
    /\ [][(pc # "except" /\ pc' = "except")
          => \/ pc = "group" /\ GeomsRaise(segments)
             \/ pc = "grouped" /\ TextsRaise(sorted_lines)]_vars

C23_Witness ==
    /\ pc = "grouped" /\ Len(segments) = 3
    /\ Len(lines) = 2
    /\ HasValid(segments)
    /\ TextsRaise(sorted_lines)

\* A segment with geometry has been processed by the loop.
ValidProcessed == \E j \in 1..(k - 1) : geoms[indices[j]].ok

\* C24: after the loop has processed a segment with geometry current_line is
\* never empty; a segment without geometry becomes a line of its own only
\* before that, and after it is appended to the open line.
C24_OpenLineStaysOpen ==
    /\ []((pc = "loop" /\ ValidProcessed) => current_line # <<>>)
    /\ [][(AtInvalid /\ ValidProcessed)
          => (current_line' = Append(current_line, indices[k]) /\ lines' = lines)]_vars
    /\ [][(AtInvalid /\ lines' # lines)
          => (~ValidProcessed /\ lines' = Append(lines, <<indices[k]>>)
              /\ current_line' = <<>>)]_vars
    /\ [][(pc = "loop" /\ current_line # <<>>) => current_line' # <<>>]_vars

C24_Witness ==
    /\ pc = "grouped" /\ Len(segments) = 3
    /\ Len(lines) = 2 /\ Len(lines[1]) = 1 /\ Len(lines[2]) = 2
    /\ Invalid(segments[lines[1][1]])
    /\ Valid(segments[lines[2][1]])
    /\ Invalid(segments[lines[2][2]])

\* No two segments have the same (center_y, center_x).
DistinctCenters(segs) ==
    \A i, j \in 1..Len(segs) :
        i # j => <<Geoms(segs)[i].cy, Geoms(segs)[i].cx>>
                 # <<Geoms(segs)[j].cy, Geoms(segs)[j].cx>>

Permuted(segs, f) == [j \in 1..Len(segs) |-> segs[f[j]]]

\* C25: for a page whose segments all have geometry and pairwise distinct
\* (center_y, center_x), the returned text is the text returned for every
\* rearrangement of the page.
C25_InputOrderIndependence ==
    (pc = "done" /\ AllValid(ocr_lines) /\ DistinctCenters(ocr_lines))
    => /\ outcome = "grouped"
       /\ \A f \in Injections(Len(ocr_lines)) :
             text = PageText(Permuted(ocr_lines, f))

C25_Witness ==
    /\ pc = "done" /\ outcome = "grouped" /\ Len(ocr_lines) = 3
    /\ AllValid(ocr_lines) /\ DistinctCenters(ocr_lines)
    /\ sorted_lines # ocr_lines
    /\ MinimaKey(ocr_lines[2]) = MinimaKey(ocr_lines[3])
    /\ \E f \in Injections(3) :
          LineString(ocr_lines, f) # LineString(ocr_lines, InputOrder(ocr_lines))
    /\ Len(lines) = 2

====
